---- MODULE Spec2Model ----
(***************************************************************************)
(* Model of package mst: the Graph container (AddVertex, AddEdge), the     *)
(* Union-Find structure, Kruskal, the edge priority queue, Prim and        *)
(* IsConnected.                                                            *)
(*                                                                         *)
(* A *Vertex held by an Edge is modelled by the vertex ID it points to:    *)
(* the algorithms read only From.ID and To.ID through these pointers.      *)
(* An *Edge is a record; its field ptr stands for the identity of the      *)
(* allocated Edge object (each AddEdge allocates one forward Edge and, on  *)
(* an undirected graph, one reversed Edge).                                *)
(* A Go slice result is the pair (mst, mstNil): mstNil tells the nil slice *)
(* from an empty, non-nil one.                                             *)
(* Weights stay far from the limits of int, so + is exact.                 *)
(* unionFind is the UnionFind value a caller of the exported type holds;   *)
(* Kruskal builds its own and drops it on return.                          *)
(***************************************************************************)
EXTENDS Integers, Sequences, FiniteSets, TLC

VARIABLES Vertices, Edges, Directed, call, ret, unionFind

vars == <<Vertices, Edges, Directed, call, ret, unionFind>>

(***************************************************************************)
(* Bounds of the model and the inputs the callers draw from.               *)
(***************************************************************************)
MaxEdges == 2
MaxBuildEdges == 1

\* The vertex identities and the weights the callers use.
IDs == {0, 1, 2}
Weights == {1, 2}
EdgeData == {"road"}

\* The elements a caller of UnionFind uses: 0 .. MaxElement.
MaxElement == 3
Elements == 0 .. MaxElement

\* The graph value the methods receive.
G == [Vertices |-> Vertices, Edges |-> Edges, Directed |-> Directed]

\* The zero value of Vertex, what a Go map yields for a missing key.
ZeroVertex == [ID |-> 0, Name |-> "", Data |-> "nil", Edges |-> <<>>]

\* An Edge object allocated by the caller, not by AddEdge.
ForeignEdge(from, to) ==
  [From |-> from, To |-> to, Weight |-> 1, Data |-> "caller", ptr |-> 0]

\* Vertex values as the tests build them: a struct literal with no edges.
PlainVertex(id) == [ID |-> id, Name |-> "A", Data |-> "nil", Edges |-> <<>>]

PlainVertexInputs == {PlainVertex(id) : id \in IDs}

\* Vertex values in general: another name and payload, and an adjacency that
\* already holds an edge of the caller's (NewVertex demands a non-empty one).
PresetVertex(id) ==
  [ID |-> id, Name |-> "B", Data |-> "data", Edges |-> <<ForeignEdge(id, (id + 1) % 3)>>]

VertexInputs == PlainVertexInputs \cup {PresetVertex(id) : id \in IDs}

EdgeInputsOver(vs) ==
  {[From |-> f, To |-> t, Weight |-> w, Data |-> d] :
     f \in vs, t \in vs, w \in Weights, d \in EdgeData}

(***************************************************************************)
(* Graph container                                                         *)
(***************************************************************************)
NewGraph(directed) == [Vertices |-> <<>>, Edges |-> <<>>, Directed |-> directed]

GetVertex(g, id) ==
  IF id \in DOMAIN g.Vertices
  THEN [v |-> g.Vertices[id], exists |-> TRUE]
  ELSE [v |-> ZeroVertex, exists |-> FALSE]

\* Mutant: the last writer wins.
AddVertex_overwrite(g, vertex) ==
  [g |-> [g EXCEPT !.Vertices = (vertex.ID :> vertex) @@ @], ret |-> vertex]

AddVertex(g, vertex) ==
  LET r == GetVertex(g, vertex.ID) IN
  IF r.exists
  THEN [g |-> g, ret |-> r.v]
  ELSE [g |-> [g EXCEPT !.Vertices = (vertex.ID :> vertex) @@ @], ret |-> vertex]

\* Mutant: the endpoints are not swapped.
Reverse_unswapped(e) ==
  [From |-> e.From, To |-> e.To, Weight |-> e.Weight, Data |-> e.Data,
   ptr |-> e.ptr + 1]

Reverse(e) ==
  [From |-> e.To, To |-> e.From, Weight |-> e.Weight, Data |-> e.Data,
   ptr |-> e.ptr + 1]

\* Mutant: the reversed edge enters the global edge sequence too.
AddEdge_reverseInEdges(g, edge) ==
  LET fr == GetVertex(g, edge.From.ID)
      tr == GetVertex(g, edge.To.ID)
      a1 == IF ~fr.exists THEN AddVertex(g, edge.From) ELSE [g |-> g, ret |-> fr.v]
      a2 == IF ~tr.exists THEN AddVertex(a1.g, edge.To) ELSE [g |-> a1.g, ret |-> tr.v]
      from == a1.ret
      to == a2.ret
      newEdge == [From |-> from.ID, To |-> to.ID, Weight |-> edge.Weight,
                  Data |-> edge.Data, ptr |-> 2 * Len(g.Edges) + 1]
      g1 == [a2.g EXCEPT !.Edges = Append(@, newEdge)]
      g2 == [g1 EXCEPT !.Vertices[from.ID].Edges = Append(@, newEdge)]
      g3 == IF ~g.Directed
            THEN [g2 EXCEPT !.Vertices[to.ID].Edges = Append(@, Reverse(newEdge)),
                            !.Edges = Append(@, Reverse(newEdge))]
            ELSE g2
  IN [g |-> g3, ret |-> newEdge]

AddEdge(g, edge) ==
  LET fr == GetVertex(g, edge.From.ID)
      tr == GetVertex(g, edge.To.ID)
      a1 == IF ~fr.exists THEN AddVertex(g, edge.From) ELSE [g |-> g, ret |-> fr.v]
      a2 == IF ~tr.exists THEN AddVertex(a1.g, edge.To) ELSE [g |-> a1.g, ret |-> tr.v]
      from == a1.ret
      to == a2.ret
      newEdge == [From |-> from.ID, To |-> to.ID, Weight |-> edge.Weight,
                  Data |-> edge.Data, ptr |-> 2 * Len(g.Edges) + 1]
      g1 == [a2.g EXCEPT !.Edges = Append(@, newEdge)]
      g2 == [g1 EXCEPT !.Vertices[from.ID].Edges = Append(@, newEdge)]
      g3 == IF ~g.Directed
            THEN [g2 EXCEPT !.Vertices[to.ID].Edges = Append(@, Reverse(newEdge))]
            ELSE g2
  IN [g |-> g3, ret |-> newEdge]

VertexCount(g) == Cardinality(DOMAIN g.Vertices)

EdgeCount(g) == Len(g.Edges)

(***************************************************************************)
(* Union-Find.  A Go map read of a missing key yields 0.                   *)
(***************************************************************************)
NewUnionFind == [parent |-> <<>>, rank |-> <<>>]

parentOf(uf, x) == IF x \in DOMAIN uf.parent THEN uf.parent[x] ELSE 0

rankOf(uf, x) == IF x \in DOMAIN uf.rank THEN uf.rank[x] ELSE 0

setParent(uf, x, p) == [uf EXCEPT !.parent = (x :> p) @@ @]

setRank(uf, x, r) == [uf EXCEPT !.rank = (x :> r) @@ @]

MakeSet(uf, x) ==
  IF x \in DOMAIN uf.parent THEN uf ELSE setRank(setParent(uf, x, x), x, 0)

RECURSIVE Find(_, _)
Find(uf, x) ==
  IF parentOf(uf, x) # x
  THEN LET r == Find(uf, parentOf(uf, x)) IN
       [uf |-> setParent(r.uf, x, r.root), root |-> r.root]
  ELSE [uf |-> uf, root |-> parentOf(uf, x)]

\* Mutant: on a rank tie the rank grows but the roots are not linked.
Union_tieNoLink(uf, x, y) ==
  LET fx == Find(uf, x)
      fy == Find(fx.uf, y)
      rootX == fx.root
      rootY == fy.root
      u == fy.uf
  IN IF rootX = rootY THEN [uf |-> u, ok |-> FALSE]
     ELSE IF rankOf(u, rootX) < rankOf(u, rootY)
       THEN [uf |-> setParent(u, rootX, rootY), ok |-> TRUE]
     ELSE IF rankOf(u, rootX) > rankOf(u, rootY)
       THEN [uf |-> setParent(u, rootY, rootX), ok |-> TRUE]
     ELSE [uf |-> setRank(u, rootX, rankOf(u, rootX) + 1), ok |-> TRUE]

Union(uf, x, y) ==
  LET fx == Find(uf, x)
      fy == Find(fx.uf, y)
      rootX == fx.root
      rootY == fy.root
      u == fy.uf
  IN IF rootX = rootY THEN [uf |-> u, ok |-> FALSE]
     ELSE IF rankOf(u, rootX) < rankOf(u, rootY)
       THEN [uf |-> setParent(u, rootX, rootY), ok |-> TRUE]
     ELSE IF rankOf(u, rootX) > rankOf(u, rootY)
       THEN [uf |-> setParent(u, rootY, rootX), ok |-> TRUE]
     ELSE [uf |-> setRank(setParent(u, rootY, rootX), rootX, rankOf(u, rootX) + 1),
           ok |-> TRUE]

(***************************************************************************)
(* Kruskal                                                                 *)
(***************************************************************************)
Panic(msg) == [kind |-> "panic", msg |-> msg]

Result(mst, totalWeight) ==
  [kind |-> "ok", mst |-> mst, mstNil |-> FALSE, totalWeight |-> totalWeight]

\* Mutant: the comparison the wrong way round.
lessByWeight_flipped(a, b) == a.Weight > b.Weight

\* The less function handed to sort.Slice: weight only.
lessByWeight(a, b) == a.Weight < b.Weight

\* sort.Slice(edges, less): sorts by less and is not guaranteed stable, so
\* elements that compare equal may come out in any order.
SortSlice(edges) ==
  LET n == Len(edges)
      perms == {p \in [1 .. n -> 1 .. n] : \A i, j \in 1 .. n : i # j => p[i] # p[j]}
      sorted == {p \in perms :
                   \A i, j \in 1 .. n : i < j => ~lessByWeight(edges[p[j]], edges[p[i]])}
  IN {[i \in 1 .. n |-> edges[p[i]]] : p \in sorted}

\* for id := range g.Vertices { uf.MakeSet(id) }: the outcome does not depend
\* on the iteration order, every id gets parent id and rank 0.
RECURSIVE makeSets(_, _)
makeSets(uf, ids) ==
  IF ids = {} THEN uf
  ELSE LET id == CHOOSE x \in ids : TRUE IN makeSets(MakeSet(uf, id), ids \ {id})

\* for _, edge := range edges { ... }, from position i on.
RECURSIVE kruskalLoop(_, _, _, _, _, _)
kruskalLoop(g, edges, i, uf, mst, totalWeight) ==
  IF i > Len(edges) THEN Result(mst, totalWeight)
  ELSE LET edge == edges[i]
           u == Union(uf, edge.From, edge.To)
       IN IF u.ok
          THEN IF Len(mst) + 1 = VertexCount(g) - 1
               THEN Result(Append(mst, edge), totalWeight + edge.Weight)
               ELSE kruskalLoop(g, edges, i + 1, u.uf, Append(mst, edge),
                                totalWeight + edge.Weight)
          ELSE kruskalLoop(g, edges, i + 1, u.uf, mst, totalWeight)

\* Kruskal on the outcome `edges` of the sort.
kruskalSorted(g, edges) ==
  kruskalLoop(g, edges, 1, makeSets(NewUnionFind, DOMAIN g.Vertices), <<>>, 0)

\* The results Kruskal() may return: one per outcome of the sort.
Kruskal(g) ==
  IF g.Directed
  THEN {Panic("Kruskal algorithm only works for undirected graphs")}
  ELSE {kruskalSorted(g, edges) : edges \in SortSlice(g.Edges)}

(***************************************************************************)
(* PriorityQueue under container/heap.  Positions are Go's, from 0.        *)
(***************************************************************************)
\* Mutant: a max-heap.
Less_flipped(pq, i, j) == pq[i + 1].Weight > pq[j + 1].Weight

Less(pq, i, j) == pq[i + 1].Weight < pq[j + 1].Weight

Swap(pq, i, j) == [pq EXCEPT ![i + 1] = pq[j + 1], ![j + 1] = pq[i + 1]]

RECURSIVE up(_, _)
up(pq, j) ==
  LET i == IF j = 0 THEN 0 ELSE (j - 1) \div 2 IN
  IF i = j \/ ~Less(pq, j, i) THEN pq ELSE up(Swap(pq, i, j), i)

RECURSIVE down(_, _, _)
down(pq, i, n) ==
  LET j1 == 2 * i + 1 IN
  IF j1 >= n THEN pq
  ELSE LET j2 == j1 + 1
           j == IF j2 < n /\ Less(pq, j2, j1) THEN j2 ELSE j1
       IN IF ~Less(pq, j, i) THEN pq ELSE down(Swap(pq, i, j), j, n)

heapPush(pq, x) == up(Append(pq, x), Len(pq))

heapPop(pq) ==
  LET n == Len(pq) - 1
      d == down(Swap(pq, 0, n), 0, n)
  IN [pq |-> SubSeq(d, 1, n), item |-> d[n + 1]]

(***************************************************************************)
(* Prim                                                                    *)
(***************************************************************************)
\* for _, edge := range edges { if !visited[edge.To.ID] { heap.Push } }, from
\* position i on.
RECURSIVE pushEdges(_, _, _, _)
pushEdges(pq, edges, i, visited) ==
  IF i > Len(edges) THEN pq
  ELSE pushEdges(IF edges[i].To \in visited THEN pq ELSE heapPush(pq, edges[i]),
                 edges, i + 1, visited)

\* Mutant: a popped edge is accepted whether or not its target was visited.
RECURSIVE primLoop_noSkip(_, _, _, _, _)
primLoop_noSkip(g, pq, mst, totalWeight, visited) ==
  IF Len(pq) > 0 /\ Len(mst) < VertexCount(g) - 1
  THEN LET p == heapPop(pq)
           edge == p.item
           visited2 == visited \cup {edge.To}
           toVertex == GetVertex(g, edge.To).v
       IN primLoop_noSkip(g, pushEdges(p.pq, toVertex.Edges, 1, visited2),
                          Append(mst, edge), totalWeight + edge.Weight, visited2)
  ELSE Result(mst, totalWeight)

RECURSIVE primLoop(_, _, _, _, _)
primLoop(g, pq, mst, totalWeight, visited) ==
  IF Len(pq) > 0 /\ Len(mst) < VertexCount(g) - 1
  THEN LET p == heapPop(pq)
           edge == p.item
       IN IF edge.To \in visited
          THEN primLoop(g, p.pq, mst, totalWeight, visited)
          ELSE LET visited2 == visited \cup {edge.To}
                   toVertex == GetVertex(g, edge.To).v
               IN primLoop(g, pushEdges(p.pq, toVertex.Edges, 1, visited2),
                           Append(mst, edge), totalWeight + edge.Weight, visited2)
  ELSE Result(mst, totalWeight)

\* Mutant: the start vertex is looked up before the Directed flag is read.
Prim_lookupFirst(g, startID) ==
  LET r == GetVertex(g, startID) IN
  IF ~r.exists
  THEN [kind |-> "ok", mst |-> <<>>, mstNil |-> TRUE, totalWeight |-> 0]
  ELSE IF g.Directed
  THEN Panic("Prim algorithm only works for undirected graphs")
  ELSE primLoop(g, pushEdges(<<>>, r.v.Edges, 1, {}), <<>>, 0, {r.v.ID})

\* Mutant: the start vertex is not looked up.
Prim_noLookup(g, startID) ==
  IF g.Directed
  THEN Panic("Prim algorithm only works for undirected graphs")
  ELSE LET r == GetVertex(g, startID) IN
       primLoop(g, pushEdges(<<>>, r.v.Edges, 1, {}), <<>>, 0, {r.v.ID})

Prim(g, startID) ==
  IF g.Directed
  THEN Panic("Prim algorithm only works for undirected graphs")
  ELSE LET r == GetVertex(g, startID) IN
       IF ~r.exists
       THEN [kind |-> "ok", mst |-> <<>>, mstNil |-> TRUE, totalWeight |-> 0]
       \* every edge of the start vertex is pushed, visited or not
       ELSE primLoop(g, pushEdges(<<>>, r.v.Edges, 1, {}), <<>>, 0, {r.v.ID})

(***************************************************************************)
(* IsConnected                                                             *)
(***************************************************************************)
\* Mutant: the neighbours are marked but not descended into.
dfs_shallow(g, nodeID, visited) ==
  LET edges == GetVertex(g, nodeID).v.Edges IN
  visited \cup {nodeID} \cup {edges[i].To : i \in 1 .. Len(edges)}

RECURSIVE dfs(_, _, _)
RECURSIVE dfsEdges(_, _, _, _)
\* dfs(nodeID, visited): the visited set when the call returns.
dfs(g, nodeID, visited) ==
  dfsEdges(g, GetVertex(g, nodeID).v.Edges, 1, visited \cup {nodeID})

dfsEdges(g, edges, i, visited) ==
  IF i > Len(edges) THEN visited
  ELSE dfsEdges(g, edges, i + 1,
                IF edges[i].To \in visited THEN visited
                ELSE dfs(g, edges[i].To, visited))

\* IsConnected with startID the first key the map iteration yields.
isConnectedFrom(g, startID) ==
  Cardinality(dfs(g, startID, {})) = VertexCount(g)

\* The values IsConnected() may return: Go fixes no iteration order of a map.
IsConnected(g) ==
  IF VertexCount(g) = 0 THEN {TRUE}
  ELSE {isConnectedFrom(g, startID) : startID \in DOMAIN g.Vertices}

(***************************************************************************)
(* Operations of the program as actions.  call is the operation that just  *)
(* ended, with its argument, and ret is what it returned (or its panic).   *)
(***************************************************************************)
Init ==
  /\ \E directed \in BOOLEAN :
       /\ Vertices = NewGraph(directed).Vertices
       /\ Edges = NewGraph(directed).Edges
       /\ Directed = NewGraph(directed).Directed
  /\ call = [op |-> "NewGraph"]
  /\ ret = [kind |-> "ok"]
  /\ unionFind = NewUnionFind

AddVertexCall(vertex) ==
  LET r == AddVertex(G, vertex) IN
  /\ Vertices' = r.g.Vertices
  /\ Edges' = r.g.Edges
  /\ call' = [op |-> "AddVertex", vertex |-> vertex]
  /\ ret' = [kind |-> "ok", vertex |-> r.ret]
  /\ UNCHANGED <<Directed, unionFind>>

AddEdgeCall(edge) ==
  LET r == AddEdge(G, edge) IN
  /\ Vertices' = r.g.Vertices
  /\ Edges' = r.g.Edges
  /\ call' = [op |-> "AddEdge", edge |-> edge]
  /\ ret' = [kind |-> "ok", edge |-> r.ret]
  /\ UNCHANGED <<Directed, unionFind>>

KruskalCall ==
  /\ ret' \in Kruskal(G)
  /\ call' = [op |-> "Kruskal"]
  /\ UNCHANGED <<Vertices, Edges, Directed, unionFind>>

PrimCall(startID) ==
  /\ ret' = Prim(G, startID)
  /\ call' = [op |-> "Prim", startID |-> startID]
  /\ UNCHANGED <<Vertices, Edges, Directed, unionFind>>

IsConnectedCall ==
  /\ \E b \in IsConnected(G) : ret' = [kind |-> "ok", connected |-> b]
  /\ call' = [op |-> "IsConnected"]
  /\ UNCHANGED <<Vertices, Edges, Directed, unionFind>>

\* Any caller: vertices with any name and adjacency.
Next ==
  \/ \E vertex \in VertexInputs : AddVertexCall(vertex)
  \/ \E edge \in EdgeInputsOver(VertexInputs) :
       Len(Edges) < MaxBuildEdges /\ AddEdgeCall(edge)
  \/ KruskalCall
  \/ \E startID \in IDs : PrimCall(startID)
  \/ IsConnectedCall

Spec == Init /\ [][Next]_vars

\* A caller that builds its vertices as the tests do, with no edges.
InitPlain == Init /\ ~Directed

NextPlain ==
  \/ \E vertex \in PlainVertexInputs : AddVertexCall(vertex)
  \/ \E edge \in EdgeInputsOver(PlainVertexInputs) :
       Len(Edges) < MaxEdges /\ AddEdgeCall(edge)
  \/ KruskalCall
  \/ \E startID \in IDs : PrimCall(startID)
  \/ IsConnectedCall

SpecPlain == InitPlain /\ [][NextPlain]_vars

\* A caller of UnionFind as Kruskal is one: NewUnionFind(), then MakeSet, Find
\* and Union in any order, Find and Union on elements MakeSet has registered.
InitUF ==
  /\ Vertices = NewGraph(FALSE).Vertices
  /\ Edges = NewGraph(FALSE).Edges
  /\ Directed = NewGraph(FALSE).Directed
  /\ unionFind = NewUnionFind
  /\ call = [op |-> "NewUnionFind"]
  /\ ret = [kind |-> "ok"]

MakeSetCall(x) ==
  /\ unionFind' = MakeSet(unionFind, x)
  /\ call' = [op |-> "MakeSet", x |-> x]
  /\ ret' = [kind |-> "ok"]
  /\ UNCHANGED <<Vertices, Edges, Directed>>

FindCall(x) ==
  LET r == Find(unionFind, x) IN
  /\ unionFind' = r.uf
  /\ call' = [op |-> "Find", x |-> x]
  /\ ret' = [kind |-> "ok", root |-> r.root]
  /\ UNCHANGED <<Vertices, Edges, Directed>>

UnionCall(x, y) ==
  LET r == Union(unionFind, x, y) IN
  /\ unionFind' = r.uf
  /\ call' = [op |-> "Union", x |-> x, y |-> y]
  /\ ret' = [kind |-> "ok", ok |-> r.ok]
  /\ UNCHANGED <<Vertices, Edges, Directed>>

NextUF ==
  \/ \E x \in Elements : MakeSetCall(x)
  \/ \E x \in DOMAIN unionFind.parent : FindCall(x)
  \/ \E x, y \in DOMAIN unionFind.parent : UnionCall(x, y)

SpecUF == InitUF /\ [][NextUF]_vars

(***************************************************************************)
(* Graph theory the claims are stated in, defined on the edge sequence     *)
(* alone (never through the adjacency lists or the algorithms).            *)
(***************************************************************************)
Range(seq) == {seq[i] : i \in 1 .. Len(seq)}

RECURSIVE SumWeights(_)
SumWeights(seq) ==
  IF seq = <<>> THEN 0 ELSE seq[1].Weight + SumWeights(Tail(seq))

\* The vertices joined to a vertex of S by edges of es, taken in both directions.
RECURSIVE Joined(_, _)
Joined(S, es) ==
  LET N == S \cup {e.To : e \in {x \in es : x.From \in S}}
             \cup {e.From : e \in {x \in es : x.To \in S}}
  IN IF N = S THEN S ELSE Joined(N, es)

ComponentOf(v) == Joined({v}, Range(Edges))

ComponentsUnder(es) == {Joined({v}, es) : v \in DOMAIN Vertices}

GraphConnected == \A u, v \in DOMAIN Vertices : v \in ComponentOf(u)

\* es has no cycle: a forest has as many edges as vertices minus components.
\* (es is a set of Edge objects, parallel edges told apart by ptr.)
Acyclic(es) ==
  Cardinality(es) = Cardinality(DOMAIN Vertices) - Cardinality(ComponentsUnder(es))

SpanningForests ==
  {F \in SUBSET Range(Edges) :
     Acyclic(F) /\ ComponentsUnder(F) = ComponentsUnder(Range(Edges))}

RECURSIVE SumOver(_)
SumOver(es) ==
  IF es = {} THEN 0
  ELSE LET e == CHOOSE x \in es : TRUE IN e.Weight + SumOver(es \ {e})

Called(op) == call.op = op

Returned(op) == call.op = op /\ ret.kind = "ok"

(***************************************************************************)
(* C1: on a connected undirected graph, the total weight Kruskal() returns *)
(* equals the total weight Prim(s) returns, for every vertex s of the      *)
(* graph: whichever of the two has just returned, its total is the other's.*)
(***************************************************************************)
C1_KruskalEqualsPrim ==
  (~Directed /\ GraphConnected) =>
    /\ (Called("Prim") /\ call.startID \in DOMAIN Vertices) =>
         /\ ret.kind = "ok"
         /\ \A k \in Kruskal(G) : k.kind = "ok" /\ k.totalWeight = ret.totalWeight
    /\ Called("Kruskal") =>
         /\ ret.kind = "ok"
         /\ \A s \in DOMAIN Vertices : Prim(G, s).totalWeight = ret.totalWeight

\* Prim has returned on a connected graph that offered it a choice of weights.
C1_Witness ==
  /\ Returned("Prim") /\ call.startID \in DOMAIN Vertices
  /\ ~Directed /\ GraphConnected
  /\ Cardinality(DOMAIN Vertices) >= 2
  /\ Len(Edges) >= Cardinality(DOMAIN Vertices)
  /\ \E i, j \in 1 .. Len(Edges) : Edges[i].Weight < Edges[j].Weight
  /\ ret.totalWeight < SumWeights(Edges)

(***************************************************************************)
(* C2: on a connected undirected graph with V >= 1 vertices, Kruskal()     *)
(* returns exactly V-1 edges and so does Prim(s) for every vertex s.       *)
(***************************************************************************)
C2_TreeSize ==
  (~Directed /\ GraphConnected /\ Cardinality(DOMAIN Vertices) >= 1) =>
    /\ Called("Kruskal") =>
         ret.kind = "ok" /\ Len(ret.mst) = Cardinality(DOMAIN Vertices) - 1
    /\ (Called("Prim") /\ call.startID \in DOMAIN Vertices) =>
         ret.kind = "ok" /\ Len(ret.mst) = Cardinality(DOMAIN Vertices) - 1

\* Prim has returned a tree on a connected graph with a self-loop or a
\* parallel edge to pass over.
C2_Witness ==
  /\ Returned("Prim") /\ call.startID \in DOMAIN Vertices
  /\ ~Directed /\ GraphConnected
  /\ Cardinality(DOMAIN Vertices) >= 2
  /\ Len(Edges) > Len(ret.mst)
  /\ Len(ret.mst) = Cardinality(DOMAIN Vertices) - 1

(***************************************************************************)
(* C3: on any undirected graph the edges Kruskal() returns are edges of    *)
(* the graph that form a minimum spanning forest: no cycle, the same       *)
(* vertices joined as in the graph (so V minus the number of components    *)
(* edges, fewer than V-1 when disconnected), the total returned is the sum *)
(* of their weights, and no spanning forest of the graph weighs less.      *)
(***************************************************************************)
C3_MinimumSpanningForest ==
  (~Directed /\ Called("Kruskal")) =>
    LET F == Range(ret.mst) IN
    /\ ret.kind = "ok"
    /\ F \subseteq Range(Edges)
    /\ Cardinality(F) = Len(ret.mst)
    /\ Acyclic(F)
    /\ ComponentsUnder(F) = ComponentsUnder(Range(Edges))
    /\ Len(ret.mst) = Cardinality(DOMAIN Vertices)
                        - Cardinality(ComponentsUnder(Range(Edges)))
    /\ (~GraphConnected => Len(ret.mst) < Cardinality(DOMAIN Vertices) - 1)
    /\ ret.totalWeight = SumWeights(ret.mst)
    /\ \A S \in SpanningForests : ret.totalWeight <= SumOver(S)

\* Kruskal has returned on a disconnected graph where a heavier spanning
\* forest exists.
C3_Witness ==
  /\ ~Directed /\ Returned("Kruskal")
  /\ ~GraphConnected
  /\ Len(ret.mst) >= 1
  /\ \E S \in SpanningForests : ret.totalWeight < SumOver(S)

(***************************************************************************)
(* C4 as stated: Kruskal() or Prim(s) on a directed graph ends in an       *)
(* InvalidOperation failure handed to the caller as a typed failure result.*)
(***************************************************************************)
C4_TypedFailure ==
  (Directed /\ (Called("Kruskal") \/ Called("Prim"))) => ret.kind = "InvalidOperation"

(***************************************************************************)
(* C4 amended: Kruskal() or Prim(s) on a directed graph panics with a      *)
(* message (no value is returned, typed or not) before any sorting,        *)
(* union-find, queue or result construction, whatever the start identity,  *)
(* and leaves the graph unchanged.                                         *)
(***************************************************************************)
C4_PanicsOnDirected ==
  [][(/\ Directed
      /\ \/ call'.op = "Kruskal" /\ KruskalCall
         \/ call'.op = "Prim" /\ PrimCall(call'.startID)) =>
       /\ ret'.kind = "panic"
       /\ DOMAIN ret' = {"kind", "msg"}
       /\ ret'.msg \in {"Kruskal algorithm only works for undirected graphs",
                        "Prim algorithm only works for undirected graphs"}
       /\ UNCHANGED <<Vertices, Edges, Directed>>]_vars

\* Prim has been called on a directed graph with an edge, with a start that
\* is not a vertex of it.
C4_Witness ==
  /\ Directed /\ Called("Prim") /\ ret.kind = "panic"
  /\ Len(Edges) >= 1 /\ call.startID \notin DOMAIN Vertices

(***************************************************************************)
(* C5 as stated: Prim(s) on an undirected graph with s not a vertex of it  *)
(* fails with a NotFound condition.                                        *)
(***************************************************************************)
C5_NotFoundFailure ==
  (~Directed /\ Called("Prim") /\ call.startID \notin DOMAIN Vertices) =>
    ret.kind = "NotFound"

(***************************************************************************)
(* C5 amended: Prim(s) on an undirected graph with s not a vertex of it    *)
(* returns normally, with the nil edge slice and total weight 0, and no    *)
(* failure is raised.  The result has the length 0 and the weight 0 of the *)
(* valid result on a one-vertex graph and differs from it, and from every  *)
(* result for a vertex of the graph, only in the slice being nil.          *)
(***************************************************************************)
C5_NilSentinel ==
  (~Directed /\ Called("Prim")) =>
    /\ call.startID \notin DOMAIN Vertices =>
         ret = [kind |-> "ok", mst |-> <<>>, mstNil |-> TRUE, totalWeight |-> 0]
    /\ call.startID \in DOMAIN Vertices =>
         /\ ret.kind = "ok" /\ ~ret.mstNil
         /\ Cardinality(DOMAIN Vertices) = 1 => ret.mst = <<>> /\ ret.totalWeight = 0

\* Prim has been called with a missing start on a graph that has vertices.
C5_Witness ==
  /\ ~Directed /\ Called("Prim") /\ call.startID \notin DOMAIN Vertices
  /\ Cardinality(DOMAIN Vertices) >= 1
  /\ ret.mstNil

(***************************************************************************)
(* C6 as stated: the edges Kruskal() returns are in ascending weight       *)
(* order, and returned edges of equal weight are in the order AddEdge      *)
(* inserted them.                                                          *)
(***************************************************************************)
C6_TiesInInsertionOrder ==
  (~Directed /\ Called("Kruskal")) =>
    \A i, j \in 1 .. Len(ret.mst) :
      i < j =>
        /\ ret.mst[i].Weight <= ret.mst[j].Weight
        /\ ret.mst[i].Weight = ret.mst[j].Weight => ret.mst[i].ptr < ret.mst[j].ptr

(***************************************************************************)
(* C7: on an undirected graph, for a start s that is a vertex of it,       *)
(* Prim(s) returns, without failing, edges of the graph (as stored or      *)
(* reversed) with both endpoints in the component of s; they form a tree   *)
(* spanning exactly that component: component size minus one edges, each   *)
(* leading from a vertex visited before to one not visited before.         *)
(***************************************************************************)
C7_PrimSpansComponent ==
  (~Directed /\ Called("Prim") /\ call.startID \in DOMAIN Vertices) =>
    LET comp == ComponentOf(call.startID)
        visitedBefore(i) == {call.startID} \cup {ret.mst[j].To : j \in 1 .. (i - 1)}
    IN
    /\ ret.kind = "ok" /\ ~ret.mstNil
    /\ Len(ret.mst) = Cardinality(comp) - 1
    /\ visitedBefore(Len(ret.mst) + 1) = comp
    /\ \A i \in 1 .. Len(ret.mst) :
         /\ ret.mst[i].From \in comp /\ ret.mst[i].To \in comp
         /\ ret.mst[i].From \in visitedBefore(i)
         /\ ret.mst[i].To \notin visitedBefore(i)
         /\ \E e \in Range(Edges) : ret.mst[i] \in {e, Reverse(e)}
    /\ ret.totalWeight = SumWeights(ret.mst)

\* Prim has returned a partial tree: the start's component has an edge and
\* is smaller than the graph.
C7_Witness ==
  /\ ~Directed /\ Returned("Prim") /\ call.startID \in DOMAIN Vertices
  /\ Len(ret.mst) >= 1
  /\ Len(ret.mst) < Cardinality(DOMAIN Vertices) - 1

(***************************************************************************)
(* C8: on an undirected graph built by AddVertex and AddEdge, IsConnected()*)
(* returns true exactly when every vertex is joined to every other (true   *)
(* on the empty graph), whichever vertex the traversal starts from.        *)
(***************************************************************************)
C8_IsConnectedExact ==
  (~Directed /\ Called("IsConnected")) =>
    /\ ret.connected = GraphConnected
    /\ IsConnected(G) = {GraphConnected}

\* IsConnected has returned false on a graph with an edge and two components.
C8_Witness ==
  /\ ~Directed /\ Called("IsConnected")
  /\ Len(Edges) >= 1
  /\ Cardinality(ComponentsUnder(Range(Edges))) >= 2
  /\ ret.connected = FALSE

(***************************************************************************)
(* C9: on an undirected graph whose vertices were supplied with empty      *)
(* adjacency, a call AddEdge(from, to, w) lengthens the edge sequence by   *)
(* exactly the forward edge, which it returns; appends that edge to the    *)
(* adjacency of from and one reversed entry of the same weight and payload *)
(* to the adjacency of to; creates the endpoints that are missing and      *)
(* changes no other vertex.  Hence the graph starts with no edge, every    *)
(* edge's endpoints are vertices of the graph, and the adjacency lengths   *)
(* sum to twice EdgeCount().                                               *)
(***************************************************************************)
\* Every adjacency entry was put there by AddEdge: none came with a vertex.
AdjacencyFromAddEdge(vs, es) ==
  \A id \in DOMAIN vs :
    \A i \in 1 .. Len(vs[id].Edges) :
      \E e \in Range(es) : vs[id].Edges[i] \in {e, Reverse(e)}

RECURSIVE SumAdjacency(_, _)
SumAdjacency(vs, ids) ==
  IF ids = {} THEN 0
  ELSE LET id == CHOOSE x \in ids : TRUE IN
       Len(vs[id].Edges) + SumAdjacency(vs, ids \ {id})

AddEdgeEffect(edge) ==
  LET f == edge.From.ID
      t == edge.To.ID
      fwd == Edges'[Len(Edges')]
      rev == [From |-> t, To |-> f, Weight |-> edge.Weight, Data |-> edge.Data,
              ptr |-> fwd.ptr + 1]
      prior(id) == IF id \in DOMAIN Vertices THEN Vertices[id].Edges ELSE <<>>
  IN
  /\ Len(Edges') = EdgeCount(G) + 1
  /\ SubSeq(Edges', 1, Len(Edges)) = Edges
  /\ fwd.From = f /\ fwd.To = t /\ fwd.Weight = edge.Weight /\ fwd.Data = edge.Data
  /\ ret'.edge = fwd
  /\ DOMAIN Vertices' = DOMAIN Vertices \cup {f, t}
  /\ IF f # t
     THEN /\ Vertices'[f].Edges = Append(prior(f), fwd)
          /\ Vertices'[t].Edges = Append(prior(t), rev)
     ELSE Vertices'[f].Edges = prior(f) \o <<fwd, rev>>
  /\ \A id \in DOMAIN Vertices \ {f, t} : Vertices'[id] = Vertices[id]

C10_FirstWriterWins ==
  [][/\ (call'.op = "AddVertex" /\ AddVertexCall(call'.vertex)) =>
          IF call'.vertex.ID \in DOMAIN Vertices
          THEN /\ Vertices' = Vertices
               /\ Edges' = Edges
               /\ ret'.vertex = Vertices[call'.vertex.ID]
          ELSE /\ Vertices'[call'.vertex.ID] = call'.vertex
               /\ ret'.vertex = call'.vertex
     /\ (call'.op = "AddEdge" /\ AddEdgeCall(call'.edge)) =>
          LET edge == call'.edge IN
          /\ edge.From.ID \notin DOMAIN Vertices =>
               /\ Vertices'[edge.From.ID].Name = edge.From.Name
               /\ Vertices'[edge.From.ID].Data = edge.From.Data
          /\ (edge.To.ID \notin DOMAIN Vertices /\ edge.To.ID # edge.From.ID) =>
               /\ Vertices'[edge.To.ID].Name = edge.To.Name
               /\ Vertices'[edge.To.ID].Data = edge.To.Data
     /\ \A id \in DOMAIN Vertices :
          /\ id \in DOMAIN Vertices'
          /\ Vertices'[id].ID = Vertices[id].ID
          /\ Vertices'[id].Name = Vertices[id].Name
          /\ Vertices'[id].Data = Vertices[id].Data
          /\ Len(Vertices'[id].Edges) >= Len(Vertices[id].Edges)
          /\ SubSeq(Vertices'[id].Edges, 1, Len(Vertices[id].Edges)) = Vertices[id].Edges
    ]_vars

\* AddVertex has returned a stored record that AddEdge had already extended,
\* so the ID was in the graph when it was called.
C10_Witness ==
  /\ Called("AddVertex")
  /\ call.vertex.Name = "A" /\ call.vertex.Edges = <<>>
  /\ ret.vertex.Name = "B"
  /\ Vertices[call.vertex.ID] = ret.vertex
  /\ \E i \in 1 .. Len(ret.vertex.Edges) : ret.vertex.Edges[i].ptr # 0

(***************************************************************************)
(* Union-Find as a partition, read off the parent map without Find.        *)
(***************************************************************************)
RECURSIVE rootOf(_, _)
rootOf(u, e) == IF u.parent[e] = e THEN e ELSE rootOf(u, u.parent[e])

\* The step is the call Union(x, y), on registered elements.
UnionStep ==
  /\ call'.op = "Union"
  /\ call'.x \in DOMAIN unionFind.parent
  /\ call'.y \in DOMAIN unionFind.parent
  /\ UnionCall(call'.x, call'.y)

\* The step repeats the call that has just ended.
RepeatedUnionStep ==
  /\ UnionStep
  /\ call.op = "Union"
  /\ call'.x = call.x
  /\ call'.y = call.y

(***************************************************************************)
(* C11 as stated: over registered elements, a Union(a, b) that returns     *)
(* true leaves Find(a) = Find(b), and a repeated Union(a, b) returns false *)
(* and leaves the parent map and the rank map as they were.                *)
(***************************************************************************)
C11_RepeatedUnionNoMutation ==
  [][/\ (UnionStep /\ ret'.ok) =>
          Find(unionFind', call'.x).root = Find(unionFind', call'.y).root
     /\ RepeatedUnionStep =>
          /\ ~ret'.ok
          /\ unionFind'.parent = unionFind.parent
          /\ unionFind'.rank = unionFind.rank
    ]_vars

(***************************************************************************)
(* C11, amended: over registered elements, a Union(a, b) that returns true *)
(* leaves Find(a) = Find(b), having joined two sets that were apart; a     *)
(* repeated Union(a, b) returns false; and a Union that returns false      *)
(* leaves the rank map, the registered elements and the root of every      *)
(* element as they were, and changes a parent entry only to the root of    *)
(* its element (path compression by the two Find calls).                   *)
(***************************************************************************)
C11_RepeatedUnionKeepsPartition ==
  [][/\ (UnionStep /\ ret'.ok) =>
          /\ Find(unionFind', call'.x).root = Find(unionFind', call'.y).root
          /\ rootOf(unionFind', call'.x) = rootOf(unionFind', call'.y)
          /\ rootOf(unionFind, call'.x) # rootOf(unionFind, call'.y)
     /\ RepeatedUnionStep => ~ret'.ok
     /\ (UnionStep /\ ~ret'.ok) =>
          /\ unionFind'.rank = unionFind.rank
          /\ DOMAIN unionFind'.parent = DOMAIN unionFind.parent
          /\ \A e \in DOMAIN unionFind.parent :
               /\ rootOf(unionFind', e) = rootOf(unionFind, e)
               /\ unionFind'.parent[e] # unionFind.parent[e] =>
                    unionFind'.parent[e] = rootOf(unionFind, e)
    ]_vars

\* Union has returned false on two distinct elements of a four-element set
\* whose root has rank 2, and every element now points at the root: the
\* chain of length two the rank-2 merge left has been compressed.
C11_Witness ==
  /\ Called("Union")
  /\ ~ret.ok
  /\ call.x # call.y
  /\ Cardinality(DOMAIN unionFind.parent) = 4
  /\ \E r \in DOMAIN unionFind.parent :
       /\ unionFind.rank[r] = 2
       /\ \A e \in DOMAIN unionFind.parent : unionFind.parent[e] = r

====
